---- MODULE Spec2Model ----
(***************************************************************************)
(* Model of the two command-line assistants of the repository:             *)
(*   robot.py       AIRobot.execute / FileSystemEngine / Spinner          *)
(*   nexus_file.py  main / dispatch_tool / preview_changes / move_files   *)
(* Both resolve a free-text instruction through a remote service, show    *)
(* the proposed plan, ask for confirmation and move files.                *)
(*                                                                         *)
(* The filesystem is a set of file handles (directory, name) plus the set *)
(* of existing directories.  A line of console input is a sequence of     *)
(* one-character strings, so that strip() and lower() are computed.       *)
(* The code generated for robot.py is a sequence of statements that use   *)
(* the two FileSystemEngine primitives (or an invalid statement that      *)
(* raises), as the system prompt of get_code_from_ai asks for.            *)
(***************************************************************************)
EXTENDS Integers, Sequences, FiniteSets, TLC

\* ------------------------------------------------------------ bounds
\* Most function calls in one Gemini response (nexus_file.py).
MaxCalls == 3
\* Most statements in one generated code fragment (robot.py).
MaxStmts == 2

\* ------------------------------------------------------- text helpers
Whitespace == {" ", "\t"}

\* str.lower() on one character.
LowerChar(c) ==
  CASE c = "Y" -> "y"
    [] c = "N" -> "n"
    [] c = "A" -> "a"
    [] c = "B" -> "b"
    [] c = "T" -> "t"
    [] OTHER -> c

\* str.lower()
Lower(s) == [i \in 1..Len(s) |-> LowerChar(s[i])]

RECURSIVE LStrip(_)
LStrip(s) ==
  IF s # <<>> /\ Head(s) \in Whitespace THEN LStrip(Tail(s)) ELSE s

RECURSIVE RStrip(_)
RStrip(s) ==
  IF s # <<>> /\ s[Len(s)] \in Whitespace
    THEN RStrip(SubSeq(s, 1, Len(s) - 1))
    ELSE s

\* str.strip()
Strip(s) == RStrip(LStrip(s))

\* `needle in hay` for strings
Contains(needle, hay) ==
  \E i \in 0..(Len(hay) - Len(needle)) :
    SubSeq(hay, i + 1, i + Len(needle)) = needle

\* glob pattern "*<suffix>" against a file name
EndsWith(s, suffix) ==
  /\ Len(suffix) <= Len(s)
  /\ SubSeq(s, Len(s) - Len(suffix) + 1, Len(s)) = suffix

\* The lines a user may type at a prompt.
Lines ==
  { <<"y">>, <<"Y">>, <<>>, <<"n">>, <<"y", "e", "s">>, <<" ", "y">> }

\* No line read (yet).
NoLine == <<"<none>">>

\* ---------------------------------------------------------- filesystem
NameA == <<"a", ".", "t">>
NameB == <<"B", ".", "t">>

\* Directories are "photos", "archive" and "nowhere", which never exists.

Handle(d, n) == [dir |-> d, name |-> n]
PhotoA == Handle("photos", NameA)
PhotoB == Handle("photos", NameB)

\* dest / Path(f).name
Target(f, dest) == Handle(dest, f.name)

\* All orderings of a finite set, as sequences.
Orderings(S) ==
  {s \in [1..Cardinality(S) -> S] : \A i, j \in 1..Cardinality(S) : i # j => s[i] # s[j]}

\* --------------------------------------------------------------- plans
\* One statement of the code generated for robot.py.
Stmt(op, root, useVar, list, dest) ==
  [op |-> op, root |-> root, useVar |-> useVar, list |-> list, dest |-> dest]

\* Literal path lists a generated move_files call may carry.
Literals ==
  { <<PhotoA, PhotoB>>, <<PhotoB, PhotoA>>, <<PhotoA, PhotoA>>, <<PhotoB>> }

Suffix == <<".", "t">>

RobotStmts ==
  {Stmt("find", r, FALSE, <<>>, "archive") : r \in {"photos", "nowhere"}}
    \cup {Stmt("move", "photos", TRUE, <<>>, "archive")}
    \cup {Stmt("move", "photos", FALSE, l, "archive") : l \in Literals}
    \cup {Stmt("invalid", "photos", FALSE, <<>>, "archive")}

\* One functionCall part of a Gemini response (nexus_file.py).
Call(name, directory, term, list, dest) ==
  [name |-> name, directory |-> directory, search_term |-> term,
   file_list |-> list, destination_folder |-> dest]

NexusCalls ==
  { Call("search_files", "photos", <<>>, <<>>, "archive"),
    Call("search_files", "photos", <<"b">>, <<>>, "archive"),
    Call("search_files", "nowhere", <<>>, <<>>, "archive"),
    Call("move_files", "photos", <<>>, <<>>, "archive"),
    Call("move_files", "photos", <<>>, <<PhotoA>>, "backup"),
    Call("delete_files", "photos", <<>>, <<>>, "archive") }

\* The operation names TOOLS declares.
ToolNames == {"search_files", "move_files"}

SeqsUpTo(S, n) == UNION {[1..k -> S] : k \in 0..n}

\* ------------------------------------------------------------- state
VARIABLES
  prog,        \* which script runs: "robot" or "nexus"
  pc,          \* position of the main thread
  exit,        \* "running", "returned", "exit0" (sys.exit(0)), "uncaught"
  out,         \* messages printed so far, in order
  fs,          \* the files that exist
  dirs,        \* the directories that exist
  locked,      \* files whose move raises PermissionError
  fs0, dirs0,  \* the filesystem when the run started
  resolved,    \* outcome of the remote call
  plan,        \* statements (robot) or function calls (nexus) received
  ip,          \* index of the next statement / call
  files,       \* robot: result of the last find; nexus: context["files"]
  hasFiles,    \* nexus: "files" in context
  searched,    \* nexus: what each search_files call so far returned
  rendered,    \* what the last preview printed, line by line
  prompts,     \* confirmation prompts shown so far
  answer,      \* the line read by the current confirmation prompt
  gate,        \* what the confirmation decided: "none", "yes" or "no"
  mv,          \* the move_files call in progress (or the last one)
  prev,        \* the move_files call before it
  sp,          \* the Spinner: thread position, stop_event, frame index
  interruptAt  \* where a KeyboardInterrupt was delivered, "none" if none

vars ==
  << prog, pc, exit, out, fs, dirs, locked, fs0, dirs0, resolved, plan, ip,
     files, hasFiles, searched, rendered, prompts, answer, gate, mv, prev,
     sp, interruptAt >>

Say(tag, n) == [msg |-> tag, n |-> n]

NoRender == [shown |-> FALSE, lines |-> <<>>]

IdleMove ==
  [status |-> "idle", src |-> <<>>, dest |-> "none", i |-> 1, success_count |-> 0,
   moved |-> {}, log |-> <<>>, mkdirs |-> 0, mkdir |-> "none"]

\* A fresh move_files call; prev keeps the call before it.
NewMove(src, dest) ==
  [status |-> "running", src |-> src, dest |-> dest, i |-> 1, success_count |-> 0,
   moved |-> {}, log |-> <<>>, mkdirs |-> 0, mkdir |-> "none"]

NewSpinner ==
  [pc |-> "new", stop_event |-> FALSE, i |-> 0, stops |-> 0, late |-> FALSE]

\* Number of spinner frames: len(chars).
SpinnerFrames == 10

Init ==
  /\ prog \in {"robot", "nexus"}
  /\ pc = IF prog = "robot" THEN "r_args" ELSE "n_env"
  /\ exit = "running"
  /\ out = <<>>
  /\ fs \in SUBSET {PhotoA, PhotoB}
  /\ dirs \in {{"photos"}, {"photos", "archive"}}
  /\ locked \in SUBSET {PhotoB}
  /\ fs0 = fs
  /\ dirs0 = dirs
  /\ resolved = "none"
  /\ plan = <<>>
  /\ ip = 1
  /\ files = <<>>
  /\ hasFiles = FALSE
  /\ searched = <<>>
  /\ rendered = NoRender
  /\ prompts = 0
  /\ answer = NoLine
  /\ gate = "none"
  /\ mv = IdleMove
  /\ prev = IdleMove
  /\ sp = NewSpinner
  /\ interruptAt = "none"

\* ------------------------------------------------- shutil.move, mkdir
\* shutil.move(f, dest / Path(f).name): what it raises, "ok" if nothing.
MoveOutcome(f, dest) ==
  IF f \notin fs \/ dest \notin dirs THEN "FileNotFoundError"
  ELSE IF f \in locked THEN "PermissionError"
  ELSE "ok"

\* The files after a successful shutil.move(f, dest / Path(f).name).
FsAfterMove(f, dest) == (fs \ {f}) \cup {Target(f, dest)}

\* dest.mkdir(parents=True, exist_ok=True) may fail only if dest is absent.
MkdirOutcomes(dest) ==
  IF dest \in dirs THEN {"ok"} ELSE {"ok", "failed"}

\* ------------------------------------------------------------ Spinner
\* Spinner.start(): stop_event.clear(); thread.start()
SpinnerStart ==
  /\ prog = "robot" /\ pc = "r_spin"
  /\ sp' = [sp EXCEPT !.stop_event = FALSE, !.pc = "check"]
  /\ pc' = "r_wait"
  /\ UNCHANGED << prog, exit, out, fs, dirs, locked, fs0, dirs0, resolved, plan,
                  ip, files, hasFiles, searched, rendered, prompts, answer, gate, mv, prev,
                  interruptAt >>

\* Spinner._spin: the loop test `while not self.stop_event.is_set()`; when
\* the event is set the thread ends and its local i with it.
SpinCheck ==
  /\ sp.pc = "check"
  /\ sp' = IF sp.stop_event
             THEN [sp EXCEPT !.pc = "done", !.i = 0]
             ELSE [sp EXCEPT !.pc = "write"]
  /\ UNCHANGED << prog, pc, exit, out, fs, dirs, locked, fs0, dirs0, resolved,
                  plan, ip, files, hasFiles, searched, rendered, prompts, answer, gate, mv,
                  prev, interruptAt >>

\* Spinner._spin: write one frame; late records a frame written after a
\* stop() has returned.
SpinWrite ==
  /\ sp.pc = "write"
  /\ sp' = [sp EXCEPT !.pc = "sleep", !.late = sp.late \/ sp.stops > 0]
  /\ UNCHANGED << prog, pc, exit, out, fs, dirs, locked, fs0, dirs0, resolved,
                  plan, ip, files, hasFiles, searched, rendered, prompts, answer, gate, mv,
                  prev, interruptAt >>

\* Spinner._spin: time.sleep(0.1); i += 1  (only i % len(chars) is used)
SpinSleep ==
  /\ sp.pc = "sleep"
  /\ sp' = [sp EXCEPT !.pc = "check", !.i = (sp.i + 1) % SpinnerFrames]
  /\ UNCHANGED << prog, pc, exit, out, fs, dirs, locked, fs0, dirs0, resolved,
                  plan, ip, files, hasFiles, searched, rendered, prompts, answer, gate, mv,
                  prev, interruptAt >>

\* Spinner.stop(), first half: self.stop_event.set()
StopSet(from, to) ==
  /\ prog = "robot" /\ pc = from
  /\ sp' = [sp EXCEPT !.stop_event = TRUE]
  /\ pc' = to

\* Spinner.stop(), second half: self.thread.join() returns once the thread has
\* ended; then the line is cleared and stop() returns.
StopJoinNoWait(from) ==
  /\ prog = "robot" /\ pc = from
  /\ sp' = [sp EXCEPT !.stops = sp.stops + 1]

StopJoin(from) ==
  /\ prog = "robot" /\ pc = from
  /\ sp.pc = "done"
  /\ sp' = [sp EXCEPT !.stops = sp.stops + 1]

\* --------------------------------------------------- robot.py: main
\* main(): no prompt argument: usage is printed and main returns.
RobotNoPrompt ==
  /\ prog = "robot" /\ pc = "r_args"
  /\ out' = Append(out, Say("usage", 0))
  /\ pc' = "done" /\ exit' = "returned"
  /\ UNCHANGED << prog, fs, dirs, locked, fs0, dirs0, resolved, plan, ip, files,
                  hasFiles, searched, rendered, prompts, answer, gate, mv, prev, sp,
                  interruptAt >>

\* main(): a prompt was given; AIRobot() is constructed.
RobotHavePrompt ==
  /\ prog = "robot" /\ pc = "r_args"
  /\ pc' = "r_key"
  /\ UNCHANGED << prog, exit, out, fs, dirs, locked, fs0, dirs0, resolved, plan,
                  ip, files, hasFiles, searched, rendered, prompts, answer, gate, mv, prev, sp,
                  interruptAt >>

\* AIRobot._get_api_key: the key comes from the environment or from getpass.
RobotGetKey ==
  /\ prog = "robot" /\ pc = "r_key"
  /\ pc' = "r_spin"
  /\ UNCHANGED << prog, exit, out, fs, dirs, locked, fs0, dirs0, resolved, plan,
                  ip, files, hasFiles, searched, rendered, prompts, answer, gate, mv, prev, sp,
                  interruptAt >>

\* AIRobot._get_api_key: KeyboardInterrupt at getpass: sys.exit(0)
RobotKeyInterrupt ==
  /\ prog = "robot" /\ pc = "r_key"
  /\ interruptAt' = "getpass"
  /\ pc' = "done" /\ exit' = "exit0"
  /\ UNCHANGED << prog, out, fs, dirs, locked, fs0, dirs0, resolved, plan, ip,
                  files, hasFiles, searched, rendered, prompts, answer, gate, mv, prev, sp >>

\* ------------------------------------ robot.py: AIRobot.execute, waiting
RobotPlans == SeqsUpTo(RobotStmts, MaxStmts)

\* get_code_from_ai returns the cleaned code; the finally clause runs next.
RobotResolveOk ==
  /\ prog = "robot" /\ pc = "r_wait"
  /\ \E code \in RobotPlans : plan' = code
  /\ resolved' = "ok"
  /\ pc' = "r_fin_set"
  /\ UNCHANGED << prog, exit, out, fs, dirs, locked, fs0, dirs0, ip, files,
                  hasFiles, searched, rendered, prompts, answer, gate, mv, prev, sp,
                  interruptAt >>

\* What the remote call can fail with: requests' Timeout, an HTTP error
\* status (raise_for_status), another RequestException, an "error" body or a
\* body without choices.
ResolveFailures == {"timeout", "http_status", "request_error", "bad_body"}

\* get_code_from_ai raises ConnectionError or RuntimeError: the except clause
\* of execute runs.
RobotResolveFail ==
  /\ prog = "robot" /\ pc = "r_wait"
  /\ \E e \in ResolveFailures : resolved' = e
  /\ pc' = "r_exc_set"
  /\ UNCHANGED << prog, exit, out, fs, dirs, locked, fs0, dirs0, plan, ip, files,
                  hasFiles, searched, rendered, prompts, answer, gate, mv, prev, sp,
                  interruptAt >>

\* KeyboardInterrupt while waiting: not an Exception, so only finally runs.
RobotResolveInterrupt ==
  /\ prog = "robot" /\ pc = "r_wait"
  /\ resolved' = "interrupt"
  /\ interruptAt' = "call"
  /\ pc' = "r_fin_set"
  /\ UNCHANGED << prog, exit, out, fs, dirs, locked, fs0, dirs0, plan, ip, files,
                  hasFiles, searched, rendered, prompts, answer, gate, mv, prev, sp >>

\* except Exception: spinner.stop() ...
RobotExceptStopSet ==
  /\ StopSet("r_exc_set", "r_exc_join")
  /\ UNCHANGED << prog, exit, out, fs, dirs, locked, fs0, dirs0, resolved, plan,
                  ip, files, hasFiles, searched, rendered, prompts, answer, gate, mv, prev,
                  interruptAt >>

\* ... print_error(str(e)); return  (the finally clause still runs)
RobotExceptStopJoin ==
  /\ StopJoin("r_exc_join")
  /\ out' = Append(out, Say("error", 0))
  /\ pc' = "r_fin_set"
  /\ UNCHANGED << prog, exit, fs, dirs, locked, fs0, dirs0, resolved, plan, ip,
                  files, hasFiles, searched, rendered, prompts, answer, gate, mv, prev,
                  interruptAt >>

\* finally: spinner.stop()
RobotFinallyStopSet ==
  /\ StopSet("r_fin_set", "r_fin_join")
  /\ UNCHANGED << prog, exit, out, fs, dirs, locked, fs0, dirs0, resolved, plan,
                  ip, files, hasFiles, searched, rendered, prompts, answer, gate, mv, prev,
                  interruptAt >>

\* An except clause without its return: the plan is printed after an error.
RobotAfterWaitNoReturn ==
  /\ resolved # "none"
  /\ out' = Append(out, Say("plan", Len(plan)))
  /\ rendered' = [shown |-> TRUE, lines |-> plan]
  /\ prompts' = prompts + 1
  /\ pc' = "r_confirm" /\ exit' = exit

\* After finally: the plan is printed (code obtained), execute returns (the
\* except clause ran) or the KeyboardInterrupt reaches main, which prints
\* "Good bye!" and calls sys.exit(0).
RobotAfterWait ==
  /\ resolved # "none"
  /\ IF resolved = "ok"
       THEN /\ out' = Append(out, Say("plan", Len(plan)))
            /\ rendered' = [shown |-> TRUE, lines |-> plan]
            /\ prompts' = prompts + 1
            /\ pc' = "r_confirm" /\ exit' = exit
     ELSE IF resolved = "interrupt"
       THEN /\ out' = Append(out, Say("goodbye", 0))
            /\ UNCHANGED << rendered, prompts >>
            /\ pc' = "done" /\ exit' = "exit0"
     ELSE /\ UNCHANGED << out, rendered, prompts >>
          /\ pc' = "done" /\ exit' = "returned"

RobotFinallyStopJoin ==
  /\ StopJoin("r_fin_join")
  /\ RobotAfterWait
  /\ UNCHANGED << prog, fs, dirs, locked, fs0, dirs0, resolved, plan, ip, files,
                  hasFiles, searched, answer, gate, mv, prev, interruptAt >>

\* --------------------------- robot.py: AIRobot.execute, confirm and exec
\* A gate that only refuses an explicit "n".
RobotApprovesUnlessNo(line) == Lower(line) # <<"n">>

\* confirm = input(...).lower(); if confirm == "y"
RobotApproves(line) == Lower(line) = <<"y">>

\* The line is read; "y" starts exec(code), anything else cancels.
RobotConfirm ==
  /\ prog = "robot" /\ pc = "r_confirm"
  /\ \E line \in Lines :
       /\ answer' = line
       /\ IF RobotApproves(line)
            THEN /\ gate' = "yes"
                 /\ pc' = "r_exec" /\ exit' = exit /\ out' = out
            ELSE /\ gate' = "no"
                 /\ out' = Append(out, Say("cancelled", 0))
                 /\ pc' = "done" /\ exit' = "returned"
  /\ UNCHANGED << prog, fs, dirs, locked, fs0, dirs0, resolved, plan, ip, files,
                  hasFiles, searched, rendered, prompts, mv, prev, sp, interruptAt >>

\* except KeyboardInterrupt at the prompt: "Operation cancelled."
RobotConfirmInterrupt ==
  /\ prog = "robot" /\ pc = "r_confirm"
  /\ interruptAt' = "confirm"
  /\ gate' = "no"
  /\ out' = Append(out, Say("cancelled", 0))
  /\ pc' = "done" /\ exit' = "returned"
  /\ UNCHANGED << prog, fs, dirs, locked, fs0, dirs0, resolved, plan, ip, files,
                  hasFiles, searched, rendered, prompts, answer, mv, prev, sp >>

\* FileSystemEngine.find_files: the possible results (glob order is free).
FindFiles(root, suffix) ==
  IF root \notin dirs
    THEN {<<>>}
    ELSE Orderings({f \in fs : f.dir = root /\ EndsWith(f.name, suffix)})

\* exec(code): a statement `files = FileSystemEngine.find_files(...)`
RobotExecFind ==
  /\ prog = "robot" /\ pc = "r_exec" /\ ip <= Len(plan)
  /\ plan[ip].op = "find"
  /\ \E found \in FindFiles(plan[ip].root, Suffix) :
       /\ files' = found
       /\ out' = Append(out, IF plan[ip].root \notin dirs
                               THEN Say("path_missing", 0)
                               ELSE Say("found", Len(found)))
  /\ ip' = ip + 1
  /\ UNCHANGED << prog, pc, exit, fs, dirs, locked, fs0, dirs0, resolved, plan,
                  hasFiles, searched, rendered, prompts, answer, gate, mv, prev, sp,
                  interruptAt >>

\* exec(code): a statement `FileSystemEngine.move_files(<list>, <dest>)`
RobotExecMove ==
  /\ prog = "robot" /\ pc = "r_exec" /\ ip <= Len(plan)
  /\ plan[ip].op = "move"
  /\ mv' = NewMove(IF plan[ip].useVar THEN files ELSE plan[ip].list,
                   plan[ip].dest)
  /\ prev' = mv
  /\ pc' = "r_mkdir"
  /\ UNCHANGED << prog, exit, out, fs, dirs, locked, fs0, dirs0, resolved, plan,
                  ip, files, hasFiles, searched, rendered, prompts, answer, gate, sp,
                  interruptAt >>

\* exec(code): a statement that raises: except Exception: "Execution error"
RobotExecInvalid ==
  /\ prog = "robot" /\ pc = "r_exec" /\ ip <= Len(plan)
  /\ plan[ip].op = "invalid"
  /\ out' = Append(out, Say("execution_error", 0))
  /\ pc' = "done" /\ exit' = "returned"
  /\ UNCHANGED << prog, fs, dirs, locked, fs0, dirs0, resolved, plan, ip, files,
                  hasFiles, searched, rendered, prompts, answer, gate, mv, prev, sp,
                  interruptAt >>

\* exec(code) has run every statement: execute returns.
RobotExecEnd ==
  /\ prog = "robot" /\ pc = "r_exec" /\ ip > Len(plan)
  /\ pc' = "done" /\ exit' = "returned"
  /\ UNCHANGED << prog, out, fs, dirs, locked, fs0, dirs0, resolved, plan, ip,
                  files, hasFiles, searched, rendered, prompts, answer, gate, mv, prev, sp,
                  interruptAt >>

\* KeyboardInterrupt during exec(code): move_files catches only Exception, so
\* it reaches execute's handler: "Operation cancelled."
RobotExecInterrupt ==
  /\ prog = "robot" /\ pc \in {"r_exec", "r_mkdir", "r_item"}
  /\ interruptAt' = "exec"
  /\ mv' = IF mv.status = "running"
             THEN [mv EXCEPT !.status = "interrupted"] ELSE mv
  /\ out' = Append(out, Say("cancelled", 0))
  /\ pc' = "done" /\ exit' = "returned"
  /\ UNCHANGED << prog, fs, dirs, locked, fs0, dirs0, resolved, plan, ip, files,
                  hasFiles, searched, rendered, prompts, answer, gate, prev, sp >>

\* ------------------------------ robot.py: FileSystemEngine.move_files
\* dest.mkdir(parents=True, exist_ok=True) in its try: on failure the error
\* is printed and move_files returns.
RobotMoveMkdirContinue ==
  /\ prog = "robot" /\ pc = "r_mkdir"
  /\ \E r \in MkdirOutcomes(mv.dest) :
       /\ mv' = [mv EXCEPT !.mkdirs = mv.mkdirs + 1, !.mkdir = r]
       /\ dirs' = IF r = "ok" THEN dirs \cup {mv.dest} ELSE dirs
       /\ out' = IF r = "ok" THEN out ELSE Append(out, Say("dest_error", 0))
       /\ pc' = "r_item" /\ ip' = ip

RobotMoveMkdir ==
  /\ prog = "robot" /\ pc = "r_mkdir"
  /\ \E r \in MkdirOutcomes(mv.dest) :
       IF r = "ok"
         THEN /\ mv' = [mv EXCEPT !.mkdirs = mv.mkdirs + 1, !.mkdir = "ok"]
              /\ dirs' = dirs \cup {mv.dest}
              /\ out' = out
              /\ pc' = "r_item" /\ ip' = ip
         ELSE /\ mv' = [mv EXCEPT !.mkdirs = mv.mkdirs + 1, !.mkdir = "failed",
                                  !.status = "aborted"]
              /\ dirs' = dirs
              /\ out' = Append(out, Say("dest_error", 0))
              /\ pc' = "r_exec" /\ ip' = ip + 1

RobotMoveMkdirStep ==
  /\ RobotMoveMkdir
  /\ UNCHANGED << prog, exit, fs, locked, fs0, dirs0, resolved, plan, files,
                  hasFiles, searched, rendered, prompts, answer, gate, prev, sp, interruptAt >>

\* One iteration of `for f in file_paths`: the move and its except clause.
RobotMoveItem ==
  /\ prog = "robot" /\ pc = "r_item" /\ mv.i <= Len(mv.src)
  /\ LET f == mv.src[mv.i]
         r == MoveOutcome(f, mv.dest)
     IN /\ fs' = IF r = "ok" THEN FsAfterMove(f, mv.dest) ELSE fs
        /\ mv' = [mv EXCEPT !.i = mv.i + 1,
                            !.success_count = IF r = "ok" THEN mv.success_count + 1 ELSE mv.success_count,
                            !.log = Append(mv.log, [file |-> f, res |-> r])]

RobotMoveItemStep ==
  /\ RobotMoveItem
  /\ UNCHANGED << prog, pc, exit, out, dirs, locked, fs0, dirs0, resolved, plan,
                  ip, files, hasFiles, searched, rendered, prompts, answer, gate, prev, sp,
                  interruptAt >>

\* The loop is over: the summary is printed if success_count > 0.
RobotMoveDone ==
  /\ prog = "robot" /\ pc = "r_item" /\ mv.i > Len(mv.src)
  /\ mv' = [mv EXCEPT !.status = "done"]
  /\ out' = IF mv.success_count > 0 THEN Append(out, Say("summary", mv.success_count)) ELSE out
  /\ pc' = "r_exec" /\ ip' = ip + 1
  /\ UNCHANGED << prog, exit, fs, dirs, locked, fs0, dirs0, resolved, plan, files,
                  hasFiles, searched, rendered, prompts, answer, gate, prev, sp, interruptAt >>

RobotNext ==
  \/ SpinnerStart \/ SpinCheck \/ SpinWrite \/ SpinSleep
  \/ RobotNoPrompt \/ RobotHavePrompt \/ RobotGetKey \/ RobotKeyInterrupt
  \/ RobotResolveOk \/ RobotResolveFail \/ RobotResolveInterrupt
  \/ RobotExceptStopSet \/ RobotExceptStopJoin
  \/ RobotFinallyStopSet \/ RobotFinallyStopJoin
  \/ RobotConfirm \/ RobotConfirmInterrupt
  \/ RobotExecFind \/ RobotExecMove \/ RobotExecInvalid \/ RobotExecEnd
  \/ RobotExecInterrupt
  \/ RobotMoveMkdirStep \/ RobotMoveItemStep \/ RobotMoveDone

\* ------------------------------------------- nexus_file.py: main
\* check_environment(): GEMINI_API_KEY is set.
NexusEnvOk ==
  /\ prog = "nexus" /\ pc = "n_env"
  /\ out' = Append(out, Say("ready", 0))
  /\ pc' = "n_input"
  /\ UNCHANGED << prog, exit, fs, dirs, locked, fs0, dirs0, resolved, plan, ip,
                  files, hasFiles, searched, rendered, prompts, answer, gate, mv, prev, sp,
                  interruptAt >>

\* check_environment() raises ValueError, outside main's try.
NexusEnvMissing ==
  /\ prog = "nexus" /\ pc = "n_env"
  /\ out' = Append(out, Say("missing_key", 0))
  /\ pc' = "done" /\ exit' = "uncaught"
  /\ UNCHANGED << prog, fs, dirs, locked, fs0, dirs0, resolved, plan, ip, files,
                  hasFiles, searched, rendered, prompts, answer, gate, mv, prev, sp,
                  interruptAt >>

\* user_prompt = input(">> ")
NexusReadPrompt ==
  /\ prog = "nexus" /\ pc = "n_input"
  /\ pc' = "n_call"
  /\ UNCHANGED << prog, exit, out, fs, dirs, locked, fs0, dirs0, resolved, plan,
                  ip, files, hasFiles, searched, rendered, prompts, answer, gate, mv, prev, sp,
                  interruptAt >>

\* KeyboardInterrupt at input(">> "), which is outside main's try.
NexusInputInterrupt ==
  /\ prog = "nexus" /\ pc = "n_input"
  /\ interruptAt' = "input"
  /\ pc' = "done" /\ exit' = "uncaught"
  /\ UNCHANGED << prog, out, fs, dirs, locked, fs0, dirs0, resolved, plan, ip,
                  files, hasFiles, searched, rendered, prompts, answer, gate, mv, prev, sp >>

\* call_llm raises: Timeout has its own handler, the rest is `except Exception`.
NexusCallFail ==
  /\ prog = "nexus" /\ pc = "n_call"
  /\ \E e \in ResolveFailures :
       /\ resolved' = e
       /\ out' = Append(out, IF e = "timeout" THEN Say("api_timeout", 0)
                                              ELSE Say("unexpected_error", 0))
  /\ pc' = "done" /\ exit' = "returned"
  /\ UNCHANGED << prog, fs, dirs, locked, fs0, dirs0, plan, ip, files, hasFiles, searched,
                  rendered, prompts, answer, gate, mv, prev, sp, interruptAt >>

\* KeyboardInterrupt inside call_llm: neither handler of main catches it.
NexusCallInterrupt ==
  /\ prog = "nexus" /\ pc = "n_call"
  /\ resolved' = "interrupt"
  /\ interruptAt' = "call"
  /\ pc' = "done" /\ exit' = "uncaught"
  /\ UNCHANGED << prog, out, fs, dirs, locked, fs0, dirs0, plan, ip, files,
                  hasFiles, searched, rendered, prompts, answer, gate, mv, prev, sp >>

\* A response without function calls: no candidates, no parts, or text only.
NexusNoCalls ==
  /\ prog = "nexus" /\ pc = "n_call"
  /\ resolved' = "ok"
  /\ \E m \in {"no_response", "no_actionable", "text"} :
       out' = Append(out, Say(m, 0))
  /\ pc' = "done" /\ exit' = "returned"
  /\ UNCHANGED << prog, fs, dirs, locked, fs0, dirs0, plan, ip, files, hasFiles, searched,
                  rendered, prompts, answer, gate, mv, prev, sp, interruptAt >>

NexusPlans == SeqsUpTo(NexusCalls, MaxCalls) \ {<<>>}

\* A response with function calls: context = {} and the loop starts.
NexusCallOk ==
  /\ prog = "nexus" /\ pc = "n_call"
  /\ resolved' = "ok"
  /\ \E calls \in NexusPlans : plan' = calls
  /\ pc' = "n_loop"
  /\ UNCHANGED << prog, exit, out, fs, dirs, locked, fs0, dirs0, ip, files,
                  hasFiles, searched, rendered, prompts, answer, gate, mv, prev, sp,
                  interruptAt >>

\* `for part in function_calls` is over: main returns.
NexusLoopEnd ==
  /\ prog = "nexus" /\ pc = "n_loop" /\ ip > Len(plan)
  /\ pc' = "done" /\ exit' = "returned"
  /\ UNCHANGED << prog, out, fs, dirs, locked, fs0, dirs0, resolved, plan, ip,
                  files, hasFiles, searched, rendered, prompts, answer, gate, mv, prev, sp,
                  interruptAt >>

\* search_files: rglob("*<extension>") filtered by the lowered search term.
SearchFiles(directory, extension, term) ==
  Orderings({f \in fs : /\ f.dir = directory
                        /\ EndsWith(f.name, extension)
                        /\ Contains(Lower(term), Lower(f.name))})

\* A context that forgets its files when a search finds nothing.
ContextClearedByEmptySearch(result) ==
  IF result # <<>> THEN [files |-> result, has |-> TRUE]
  ELSE [files |-> <<>>, has |-> FALSE]

\* main: `if result: context["files"] = result`, otherwise the context stays.
ContextAfterSearch(result) ==
  IF result # <<>> THEN [files |-> result, has |-> TRUE]
  ELSE [files |-> files, has |-> hasFiles]

\* dispatch_tool("search_files") and main's handling of its result.
NexusSearch ==
  /\ prog = "nexus" /\ pc = "n_loop" /\ ip <= Len(plan)
  /\ plan[ip].name = "search_files"
  /\ \E result \in SearchFiles(plan[ip].directory, Suffix, plan[ip].search_term) :
       /\ files' = ContextAfterSearch(result).files
       /\ hasFiles' = ContextAfterSearch(result).has
       /\ searched' = Append(searched, result)
       /\ out' = Append(out, IF result # <<>> THEN Say("found", Len(result))
                                              ELSE Say("no_files_found", 0))
  /\ ip' = ip + 1
  /\ UNCHANGED << prog, pc, exit, fs, dirs, locked, fs0, dirs0, resolved, plan,
                  rendered, prompts, answer, gate, mv, prev, sp, interruptAt >>

\* files = context.get("files", [])
ContextFiles == IF hasFiles THEN files ELSE <<>>

\* One printed line of the preview: f"{f}  ->  {destination}".
PreviewLine(f, destination) == [source |-> f, destination |-> destination]

\* A preview that walks the list from its end.
RECURSIVE PreviewLinesReversed(_, _)
PreviewLinesReversed(fileList, destination) ==
  IF fileList = <<>> THEN <<>>
  ELSE Append(PreviewLinesReversed(Tail(fileList), destination),
              PreviewLine(Head(fileList), destination))

\* preview_changes: `for f in files: print(...)`, first element first.
RECURSIVE PreviewLines(_, _)
PreviewLines(fileList, destination) ==
  IF fileList = <<>> THEN <<>>
  ELSE << PreviewLine(Head(fileList), destination) >>
         \o PreviewLines(Tail(fileList), destination)

\* Arguments that come from the function call itself rather than the context.
MoveArgsFromCall(call) ==
  [src |-> call.file_list, dest |-> call.destination_folder]

\* main: move_files(files, args["destination_folder"]) with the context's files.
MoveArgs(call) == [src |-> ContextFiles, dest |-> call.destination_folder]

\* dispatch_tool("move_files") returns the pending marker; with no files main
\* returns, otherwise preview_changes prints the mapping and prompts.
NexusMovePreview ==
  /\ prog = "nexus" /\ pc = "n_loop" /\ ip <= Len(plan)
  /\ plan[ip].name = "move_files"
  /\ IF ContextFiles = <<>>
       THEN /\ out' = Append(out, Say("no_files_to_move", 0))
            /\ pc' = "done" /\ exit' = "returned"
            /\ UNCHANGED << rendered, prompts, answer, gate >>
       ELSE /\ rendered' = [shown |-> TRUE,
                            lines |-> PreviewLines(ContextFiles,
                                          plan[ip].destination_folder)]
            /\ prompts' = prompts + 1
            /\ answer' = NoLine
            /\ gate' = "none"
            /\ pc' = "n_confirm"
            /\ UNCHANGED << out, exit >>
  /\ UNCHANGED << prog, fs, dirs, locked, fs0, dirs0, resolved, plan, ip, files,
                  hasFiles, searched, mv, prev, sp, interruptAt >>

\* dispatch_tool raises ValueError("Unknown tool"): main's `except Exception`.
NexusUnknownTool ==
  /\ prog = "nexus" /\ pc = "n_loop" /\ ip <= Len(plan)
  /\ plan[ip].name \notin ToolNames
  /\ out' = Append(out, Say("unexpected_unknown_tool", 0))
  /\ pc' = "done" /\ exit' = "returned"
  /\ UNCHANGED << prog, fs, dirs, locked, fs0, dirs0, resolved, plan, ip, files,
                  hasFiles, searched, rendered, prompts, answer, gate, mv, prev, sp,
                  interruptAt >>

\* A gate that forgets lower().
NexusApprovesCaseSensitive(line) == Strip(line) = <<"y">>

\* preview_changes: choice = input(...).strip().lower(); return choice == "y"
NexusApproves(line) == Lower(Strip(line)) = <<"y">>

\* The line is read: approval calls move_files(files, destination_folder),
\* anything else prints the cancellation and the loop goes on.
NexusConfirm ==
  /\ prog = "nexus" /\ pc = "n_confirm"
  /\ \E line \in Lines :
       /\ answer' = line
       /\ gate' = IF NexusApproves(line) THEN "yes" ELSE "no"
       /\ IF NexusApproves(line)
            THEN /\ mv' = NewMove(MoveArgs(plan[ip]).src, MoveArgs(plan[ip]).dest)
                 /\ prev' = mv
                 /\ pc' = "n_mkdir"
                 /\ UNCHANGED << out, ip >>
            ELSE /\ out' = Append(out, Say("cancelled", 0))
                 /\ ip' = ip + 1
                 /\ pc' = "n_loop"
                 /\ UNCHANGED << mv, prev >>
  /\ UNCHANGED << prog, exit, fs, dirs, locked, fs0, dirs0, resolved, plan, files,
                  hasFiles, searched, rendered, prompts, sp, interruptAt >>

\* KeyboardInterrupt at the prompt of preview_changes: no handler catches it.
NexusConfirmInterrupt ==
  /\ prog = "nexus" /\ pc = "n_confirm"
  /\ interruptAt' = "confirm"
  /\ pc' = "done" /\ exit' = "uncaught"
  /\ UNCHANGED << prog, out, fs, dirs, locked, fs0, dirs0, resolved, plan, ip,
                  files, hasFiles, searched, rendered, prompts, answer, gate, mv, prev, sp >>

\* ------------------------------------------ nexus_file.py: move_files
\* dest.mkdir(parents=True, exist_ok=True): a failure propagates to main.
NexusMoveMkdir ==
  /\ prog = "nexus" /\ pc = "n_mkdir"
  /\ \E r \in MkdirOutcomes(mv.dest) :
       IF r = "ok"
         THEN /\ mv' = [mv EXCEPT !.mkdirs = mv.mkdirs + 1, !.mkdir = "ok"]
              /\ dirs' = dirs \cup {mv.dest}
              /\ pc' = "n_item"
              /\ UNCHANGED << out, exit >>
         ELSE /\ mv' = [mv EXCEPT !.mkdirs = mv.mkdirs + 1, !.mkdir = "failed",
                                  !.status = "raised"]
              /\ dirs' = dirs
              /\ out' = Append(out, Say("unexpected_error", 0))
              /\ pc' = "done" /\ exit' = "returned"

NexusMoveMkdirStep ==
  /\ NexusMoveMkdir
  /\ UNCHANGED << prog, fs, locked, fs0, dirs0, resolved, plan, ip, files,
                  hasFiles, searched, rendered, prompts, answer, gate, prev, sp, interruptAt >>

\* One iteration of `for file_path in file_list`: shutil.move has no handler
\* here, so what it raises leaves move_files and reaches main's
\* `except Exception`.
NexusMoveItem ==
  /\ prog = "nexus" /\ pc = "n_item" /\ mv.i <= Len(mv.src)
  /\ LET f == mv.src[mv.i]
         r == MoveOutcome(f, mv.dest)
     IN IF r = "ok"
          THEN /\ fs' = FsAfterMove(f, mv.dest)
               /\ mv' = [mv EXCEPT !.i = mv.i + 1,
                                   !.moved = mv.moved \cup {f},
                                   !.log = Append(mv.log, [file |-> f, res |-> r])]
               /\ UNCHANGED << out, pc, exit >>
          ELSE /\ fs' = fs
               /\ mv' = [mv EXCEPT !.status = "raised",
                                   !.log = Append(mv.log, [file |-> f, res |-> r])]
               /\ out' = Append(out, Say("unexpected_error", 0))
               /\ pc' = "done" /\ exit' = "returned"

NexusMoveItemStep ==
  /\ NexusMoveItem
  /\ UNCHANGED << prog, dirs, locked, fs0, dirs0, resolved, plan, ip, files,
                  hasFiles, searched, rendered, prompts, answer, gate, prev, sp, interruptAt >>

\* move_files returns moved; main prints "Successfully moved len(moved)".
NexusMoveDone ==
  /\ prog = "nexus" /\ pc = "n_item" /\ mv.i > Len(mv.src)
  /\ mv' = [mv EXCEPT !.status = "done"]
  /\ out' = Append(out, Say("moved", Cardinality(mv.moved)))
  /\ ip' = ip + 1
  /\ pc' = "n_loop"
  /\ UNCHANGED << prog, exit, fs, dirs, locked, fs0, dirs0, resolved, plan, files,
                  hasFiles, searched, rendered, prompts, answer, gate, prev, sp, interruptAt >>

NexusNext ==
  \/ NexusEnvOk \/ NexusEnvMissing \/ NexusReadPrompt \/ NexusInputInterrupt
  \/ NexusCallFail \/ NexusCallInterrupt \/ NexusNoCalls \/ NexusCallOk
  \/ NexusLoopEnd \/ NexusSearch \/ NexusMovePreview \/ NexusUnknownTool
  \/ NexusConfirm \/ NexusConfirmInterrupt
  \/ NexusMoveMkdirStep \/ NexusMoveItemStep \/ NexusMoveDone

Next == RobotNext \/ NexusNext

Spec == Init /\ [][Next]_vars

\* ------------------------------------------- preview_changes on its own
\* Longest file list handed to preview_changes.
MaxShown == 3

\* Handles a caller may pass, in any order and any number of times.
ShownHandles == {PhotoA, PhotoB, Handle("archive", NameA)}

\* preview_changes(files, destination) is about to be called.
RenderInit ==
  /\ prog = "nexus"
  /\ pc = "p_print"
  /\ exit = "running"
  /\ out = <<>>
  /\ fs = {} /\ dirs = {"photos"} /\ locked = {}
  /\ fs0 = fs /\ dirs0 = dirs
  /\ resolved = "ok"
  /\ plan \in {<<c>> : c \in {d \in NexusCalls : d.name = "move_files"}}
  /\ ip = 1
  /\ files \in SeqsUpTo(ShownHandles, MaxShown)
  /\ hasFiles = TRUE
  /\ searched = <<>>
  /\ rendered = NoRender
  /\ prompts = 0
  /\ answer = NoLine
  /\ gate = "none"
  /\ mv = IdleMove
  /\ prev = IdleMove
  /\ sp = NewSpinner
  /\ interruptAt = "none"

\* preview_changes: the loop that prints the mapping.
PreviewChangesPrint ==
  /\ prog = "nexus" /\ pc = "p_print"
  /\ rendered' = [shown |-> TRUE,
                  lines |-> PreviewLines(files, plan[ip].destination_folder)]
  /\ prompts' = prompts + 1
  /\ pc' = "p_read"
  /\ UNCHANGED << prog, exit, out, fs, dirs, locked, fs0, dirs0, resolved, plan,
                  ip, files, hasFiles, searched, answer, gate, mv, prev, sp,
                  interruptAt >>

\* preview_changes: the prompt is answered and the function returns.
PreviewChangesRead ==
  /\ prog = "nexus" /\ pc = "p_read"
  /\ \E line \in Lines :
       /\ answer' = line
       /\ gate' = IF NexusApproves(line) THEN "yes" ELSE "no"
  /\ pc' = "p_done"
  /\ UNCHANGED << prog, exit, out, fs, dirs, locked, fs0, dirs0, resolved, plan,
                  ip, files, hasFiles, searched, rendered, prompts, mv, prev, sp,
                  interruptAt >>

RenderNext == PreviewChangesPrint \/ PreviewChangesRead

RenderSpec == RenderInit /\ [][RenderNext]_vars

\* =============================================================== claims
\* The line is "y" compared case-insensitively.
IsYes(line) == line \in {<<"y">>, <<"Y">>}

\* The line holds one "y" or "Y" and otherwise only whitespace.
PaddedYes(line) ==
  \E i \in 1..Len(line) :
    /\ line[i] \in {"y", "Y"}
    /\ \A j \in (1..Len(line)) \ {i} : line[j] \in Whitespace

\* The answers each script's prompt takes as approval.
Affirmative(line) ==
  /\ line # NoLine
  /\ IF prog = "robot" THEN IsYes(line) ELSE PaddedYes(line)

\* A step that creates the destination, attempts a move or changes the files.
MutatingStep ==
  \/ fs' # fs
  \/ dirs' # dirs
  \/ mv'.mkdirs > mv.mkdirs
  \/ Len(mv'.log) > Len(mv.log)

\* C1: in both scripts every step that creates the destination directory or
\* moves (or tries to move) a file is taken while the answer read by the
\* confirmation prompt of the current plan is an approval; with no answer yet
\* or an answer such as "", "n" or "yes" nothing on the filesystem changes.
C1_ConfirmBeforeMutate == [][MutatingStep => Affirmative(answer)]_vars

C1_Witness ==
  /\ fs # fs0
  /\ Affirmative(answer)
  /\ mv.success_count + Cardinality(mv.moved) > 0

MoveEnded == mv.status \in {"done", "raised"} /\ mv.mkdir = "ok"

\* C3: after a move request whose destination was created, every source has
\* been attempted, in input order, and no source that exists and can be moved
\* is left behind because an earlier one failed.
C3_FailureIsolation ==
  MoveEnded =>
    /\ [k \in 1..Len(mv.log) |-> mv.log[k].file] = mv.src
    /\ \A k \in 1..Len(mv.src) : mv.src[k] \in fs => mv.src[k] \in locked

\* Sources recorded as moved: success_count (robot.py), len(moved) (nexus).
MovedCount == IF prog = "robot" THEN mv.success_count ELSE Cardinality(mv.moved)

\* Sources recorded as failed: the "Failed" lines (robot.py); nexus_file.py
\* keeps no failure list, the one exception that leaves it is counted.
FailedCount ==
  IF prog = "robot"
    THEN Cardinality({k \in 1..Len(mv.log) : mv.log[k].res # "ok"})
    ELSE IF mv.status = "raised" THEN 1 ELSE 0

\* C4: when a move request that reached its loop finishes, moved plus failed
\* equals the number of sources requested.
C4_Conservation ==
  MoveEnded => MovedCount + FailedCount = Len(mv.src)

\* C5: the destination is created exactly once and before any source is
\* touched; when the creation fails the request ends with no source
\* attempted.
C5_DestinationFirst ==
  /\ mv.mkdirs <= 1
  /\ Len(mv.log) > 0 =>
       /\ mv.mkdirs = 1
       /\ mv.mkdir = "ok"
       /\ mv.dest \in dirs
  /\ mv.status = "done" => mv.mkdirs = 1
  /\ mv.mkdir = "failed" =>
       /\ Len(mv.log) = 0
       /\ mv.i = 1
       /\ MovedCount = 0
       /\ mv.status \in {"aborted", "raised"}
       /\ pc \notin {"r_item", "n_item"}

C5_Witness ==
  /\ mv.mkdir = "failed"
  /\ Len(mv.src) > 0
  /\ \E k \in 1..Len(mv.src) : mv.src[k] \in fs

\* The plan names an operation that TOOLS does not declare.
HasUnknownCall ==
  /\ prog = "nexus"
  /\ \E k \in 1..Len(plan) : plan[k].name \notin ToolNames

Printed(tag) == \E k \in 1..Len(out) : out[k].msg = tag

\* C6: a run whose plan contains an unknown operation ends having reported
\* the unknown operation and with the filesystem as it was.
C6_UnknownOperation ==
  HasUnknownCall /\ exit # "running" /\ interruptAt = "none" =>
    /\ Printed("unexpected_unknown_tool")
    /\ fs = fs0
    /\ dirs = dirs0

\* C7: after a failed remote call (timeout, error status, request error, bad
\* body) no plan is shown, no confirmation prompt appears, the filesystem is
\* untouched, and the run ends with the error reported.
C7_ResolverFailureEndsRun ==
  resolved \in ResolveFailures =>
    /\ ~rendered.shown
    /\ prompts = 0
    /\ answer = NoLine
    /\ gate = "none"
    /\ mv.status = "idle"
    /\ fs = fs0
    /\ dirs = dirs0
    /\ pc \in {"r_exc_set", "r_exc_join", "r_fin_set", "r_fin_join", "done"}
    /\ exit # "running" =>
         /\ exit = "returned"
         /\ \/ Printed("error")
            \/ Printed("api_timeout")
            \/ Printed("unexpected_error")

C7_Witness ==
  /\ resolved = "timeout"
  /\ exit = "returned"

\* C8: a KeyboardInterrupt at a blocking point (key prompt, instruction
\* prompt, remote call, confirmation prompt) never leaves the top-level entry
\* point as an uncaught exception, and the run is then on its way out.
C8_InterruptHandled ==
  interruptAt \in {"getpass", "input", "call", "confirm"} =>
    /\ exit # "uncaught"
    /\ pc \in {"r_fin_set", "r_fin_join", "done"}

\* C9: once execute has left the waiting section (it shows the plan, runs it
\* or has returned) the spinner thread was told to stop and has ended; the
\* error path has then called stop() twice; no frame is ever written after a
\* stop() has returned.
C9_SpinnerStopped ==
  /\ ~sp.late
  /\ sp.stops > 0 => sp.pc = "done" /\ sp.stop_event
  /\ prog = "robot" /\ resolved # "none" /\
       pc \in {"r_confirm", "r_exec", "r_mkdir", "r_item", "done"} =>
         /\ sp.pc = "done"
         /\ sp.stop_event
         /\ sp.stops = IF resolved \in ResolveFailures THEN 2 ELSE 1

C9_Witness ==
  /\ prog = "robot"
  /\ resolved \in ResolveFailures
  /\ pc = "done"
  /\ sp.stops = 2

\* Every source of the previous move_files call was moved.
PrevAllMoved ==
  /\ prev.status = "done"
  /\ Len(prev.src) > 0
  /\ Len(prev.log) = Len(prev.src)
  /\ \A k \in 1..Len(prev.log) : prev.log[k].res = "ok"

\* C10: a move request that repeats the sources and destination of a request
\* that moved everything returns normally, moves nothing and records
\* source-missing for every source.
C10_SecondMove ==
  /\ PrevAllMoved
  /\ mv.src = prev.src /\ mv.dest = prev.dest
  /\ mv.status \in {"done", "aborted", "raised"}
  => /\ mv.status = "done"
     /\ MovedCount = 0
     /\ Len(mv.log) = Len(mv.src)
     /\ \A k \in 1..Len(mv.log) : mv.log[k].res = "FileNotFoundError"

\* A search whose root does not exist is the next step of the run.
SearchMissingRoot ==
  \/ /\ prog = "robot" /\ pc = "r_exec" /\ ip <= Len(plan)
     /\ plan[ip].op = "find" /\ plan[ip].root \notin dirs
  \/ /\ prog = "nexus" /\ pc = "n_loop" /\ ip <= Len(plan)
     /\ plan[ip].name = "search_files" /\ plan[ip].directory \notin dirs

\* C11: a search whose root path does not exist returns an empty sequence,
\* signals path-not-found, raises nothing and leaves the filesystem alone.
C11_MissingRootSignalled ==
  [][SearchMissingRoot /\ interruptAt' = interruptAt
       => /\ ip' = ip + 1 /\ exit' = "running"
          /\ fs' = fs /\ dirs' = dirs
          /\ prog = "robot" => files' = <<>>
          /\ prog = "nexus" => searched' = Append(searched, <<>>)
          /\ out' = Append(out, Say("path_missing", 0))]_vars

\* C12: preview_changes prints one line per element of the list it is given,
\* in the order given, duplicates included, each with the destination.
C12_RenderedInOrder ==
  pc \in {"p_read", "p_done"}
    => /\ rendered.shown
       /\ Len(rendered.lines) = Len(files)
       /\ \A k \in 1..Len(files) :
            rendered.lines[k] = PreviewLine(files[k], plan[ip].destination_folder)

C12_Witness ==
  /\ pc = "p_done"
  /\ files = << PhotoB, PhotoA, PhotoB >>
  /\ Len(rendered.lines) = 3
  /\ rendered.lines[1].source = PhotoB
  /\ rendered.lines[2].source = PhotoA

\* Number of execution reports (moved-count messages) in a log.
Reports(log) ==
  Cardinality({k \in 1..Len(log) : log[k].msg \in {"summary", "moved"}})

\* The user has turned down a plan shown in this run.
Rejected == Printed("cancelled") /\ interruptAt # "exec"

\* C13: once the user has rejected a rendered plan, the run shows no further
\* confirmation prompt, produces no execution report and executes no move.
C13_RejectionEndsRun ==
  [][Rejected => /\ prompts' = prompts
                 /\ Reports(out') = Reports(out)
                 /\ ~MutatingStep
                 /\ mv' = mv]_vars

\* C14: a run that entered execution of a move request after approval has,
\* when it ends, printed a summary report, whatever happened to the items.
C14_SummaryReported ==
  /\ exit # "running"
  /\ interruptAt = "none"
  /\ MoveEnded
  => Reports(out) > 0

\* Operations the plan on screen would perform: statements of the generated
\* code (robot.py), source -> destination lines of the preview (nexus_file.py).
EffectiveOps == IF prog = "robot" THEN Len(plan) ELSE Len(rendered.lines)

\* C15: the confirmation prompt is shown only for a plan with at least one
\* operation; a move with no files to move ends the run with a message and
\* without any prompt.
C15_NoPromptForEmptyPlan ==
  /\ pc \in {"r_confirm", "n_confirm"} => EffectiveOps > 0
  /\ Printed("no_files_to_move") => prompts = 0 /\ exit = "returned"

\* The remote service answered with nothing to act on.
EmptyResponse ==
  \/ prog = "robot" /\ resolved = "ok" /\ plan = <<>>
  \/ resolved = "bad_body"
  \/ Printed("no_response")
  \/ Printed("no_actionable")

\* C16: an empty or missing response is reported as an error and ends the
\* run; no plan is rendered and no confirmation is asked for.
C16_EmptyResponseIsError ==
  EmptyResponse =>
    /\ ~rendered.shown
    /\ prompts = 0
    /\ gate = "none"
    /\ exit # "running" /\ interruptAt = "none" =>
         \/ Printed("error") \/ Printed("unexpected_error")
         \/ Printed("no_response") \/ Printed("no_actionable")

\* The sources of the preview on screen, top to bottom.
RenderedSources == [k \in 1..Len(rendered.lines) |-> rendered.lines[k].source]

\* C17: in nexus_file.py, the sources and the destination handed to
\* move_files after an approval are those of the preview that was approved:
\* same elements, same order, same destination.
C17_ExecutesWhatWasShown ==
  prog = "nexus" /\ gate = "yes" /\ pc \notin {"p_read", "p_done"} =>
    /\ mv.status # "idle"
    /\ mv.src = RenderedSources
    /\ mv.src # <<>>
    /\ \A k \in 1..Len(rendered.lines) : rendered.lines[k].destination = mv.dest

C17_Witness ==
  /\ prog = "nexus" /\ gate = "yes"
  /\ mv.status = "done"
  /\ Len(mv.src) = 2
  /\ mv.dest = "backup"
  /\ Cardinality(mv.moved) = 2

\* The last non-empty result in a sequence of search results, <<>> if none.
RECURSIVE LastNonEmpty(_)
LastNonEmpty(results) ==
  IF results = <<>> THEN <<>>
  ELSE IF results[Len(results)] # <<>> THEN results[Len(results)]
  ELSE LastNonEmpty(SubSeq(results, 1, Len(results) - 1))

\* Every file some search of this run returned.
EverFound == {f \in fs0 : \E k \in 1..Len(searched) :
                            \E j \in 1..Len(searched[k]) : searched[k][j] = f}

\* C18: in nexus_file.py, the files of a move are those of the most recent
\* search of the run that returned something, whatever file_list the call
\* carries; an empty search result does not clear them; a move_files call
\* with no such search moves nothing and ends the run.
C18_MovesLastSearchResult ==
  prog = "nexus" /\ pc \notin {"p_print", "p_read", "p_done"} =>
    /\ ContextFiles = LastNonEmpty(searched)
    /\ pc \in {"n_confirm", "n_mkdir", "n_item"} =>
         RenderedSources = LastNonEmpty(searched)
    /\ pc \in {"n_mkdir", "n_item"} => mv.src = LastNonEmpty(searched)
    /\ mv.moved \subseteq EverFound
    /\ prev.moved \subseteq EverFound
    /\ LastNonEmpty(searched) = <<>> =>
         mv.status = "idle" /\ prompts = 0 /\ fs = fs0 /\ dirs = dirs0
    /\ Printed("no_files_to_move") =>
         LastNonEmpty(searched) = <<>> /\ exit = "returned"

C18_Witness ==
  /\ prog = "nexus"
  /\ Len(searched) = 2
  /\ searched[1] = << PhotoB >>
  /\ searched[2] = <<>>
  /\ ip = 4
  /\ plan[3].file_list = << PhotoA >>
  /\ mv.status = "done"
  /\ mv.moved = {PhotoB}

\* C19: in robot.py, a run that reports "Operation cancelled." has changed
\* nothing on the filesystem: the report comes from a rejection or an
\* interrupt at the prompt, never after the approved plan began to execute.
C19_CancelledMeansUntouched ==
  prog = "robot" /\ Printed("cancelled") =>
    /\ fs = fs0
    /\ dirs = dirs0

====
